---- MODULE Spec2Model ----
(***************************************************************************)
(* A model of pynfse-nacional: the protocol client (NFSeClient) with the   *)
(* SEFIN service it talks to, the DPS model with the XML builder and the   *)
(* signer, and the transport codec.                                        *)
(*                                                                         *)
(* Spec: one client instance runs one operation at a time (the library is  *)
(* synchronous).  An operation is a sequence of steps, Flow(kind); pci is  *)
(* the position in it, 0 when no call is running.                          *)
(* DocSpec: a caller constructs a DPS, serializes it with build_dps and    *)
(* signs the result.                                                       *)
(* CodecSpec: a text is passed through compress_encode and back through    *)
(* decode_decompress.                                                      *)
(* ParamSpec: the municipal-parameter lookups are called and answered.     *)
(* CnpjSpec: one string is given to the model's CNPJ validator and to      *)
(* utils.validate_cnpj.                                                    *)
(* CounterSpec: two processes of a CLI script take DPS numbers from the    *)
(* same counter file.                                                      *)
(***************************************************************************)
EXTENDS Integers, Sequences, FiniteSets, TLC

\* ------------------------------------------------------------------ bounds
NumDocs == 2

\* Reads of the PKCS12 file are counted up to MaxReads.
MaxReads == 3

\* Texts given to the codec have at most MaxText characters.
MaxText == 3

Docs == 1 .. NumDocs

\* ------------------------------------------------------------ plain values
\* Python's None in a string-typed field.
None == "None"

\* NFSeAPIError.status_code when it was not given (None).
NoStatus == 0

Digit(n) ==
    CASE n = 0 -> "0" [] n = 1 -> "1" [] n = 2 -> "2" [] n = 3 -> "3"
      [] n = 4 -> "4" [] n = 5 -> "5" [] n = 6 -> "6" [] n = 7 -> "7"
      [] n = 8 -> "8" [] n = 9 -> "9"

\* str(response.status_code)
StatusStr(s) ==
    CASE s = 200 -> "200" [] s = 201 -> "201" [] s = 204 -> "204"
      [] s = 400 -> "400" [] s = 404 -> "404" [] s = 500 -> "500"

\* The key the integration tests use for a document that does not exist.
ZeroKey == "00000000000000000000000000000000000000000000000000"

\* The 50-character access key SEFIN assigns to document d.
KeyOf(d) == "3509502211222333000181000000000000000000000000000" \o Digit(d)

\* A caller-supplied identifier for document d: DPS + 42 digits.
IdOf(d) == "DPS35095022112223330001810090000000000000000" \o Digit(d)

\* ------------------------------------------------------------ transport codec
\* compress_encode / decode_decompress on the one invoice XML the service
\* returns per document; any other token is not Base64+GZip and raises.
DecodeError == "<binascii.Error>"

XmlOf(d) == "<NFSe>" \o Digit(d) \o "</NFSe>"

compress_encode(x) == "H4sIAAAA" \o x

decode_decompress(t) ==
    IF \E d \in Docs : t = compress_encode(XmlOf(d))
    THEN CHOOSE x \in {XmlOf(d) : d \in Docs} : compress_encode(x) = t
    ELSE DecodeError

\* ------------------------------------------------------------------ records
\* An httpx.Response as the client reads it: status_code, .text, .json()
\* (json says what .json() yields: an object, another JSON value, or an error).
NoResp ==
    [status |-> 0, json |-> "none", text |-> "",
     codigo |-> None, mensagem |-> None,
     chaveAcesso |-> None, nNFSe |-> None, nfse |-> None,
     nfseXmlGZipB64 |-> None, protocolo |-> None, situacao |-> None,
     ctype |-> ""]

\* What a call hands back: a returned model object or a raised exception.
NoResult ==
    [out |-> "none", exc |-> None, message |-> None, code |-> None,
     status_code |-> NoStatus, success |-> FALSE,
     chave_acesso |-> None, nfse_number |-> None, xml_nfse |-> None,
     nfse_xml_gzip_b64 |-> None, protocolo |-> None,
     error_code |-> None, error_message |-> None, status |-> None,
     content |-> None]

\* NFSeError.__init__ / NFSeAPIError.__init__
Raise(cls, msg, code, status) ==
    [NoResult EXCEPT !.out = "raise", !.exc = cls, !.message = msg,
                     !.code = code, !.status_code = status]

NFSeAPIError(msg, code, status) == Raise("NFSeAPIError", msg, code, status)

NFSeCertificateError(msg) == Raise("NFSeCertificateError", msg, None, NoStatus)

\* Python truthiness of an optional string: `x or default`.
Or(x, default) == IF x = None \/ x = "" THEN default ELSE x

NoCur == [kind |-> "none", doc |-> 0, chave |-> None, reason |-> None]

\* A request and how its round trip ended (outcome).
NoReq == [method |-> None, endpoint |-> None, tpEvento |-> None,
          chNFSe |-> None, xMotivo |-> None, dps |-> None, outcome |-> None]

\* -------------------------------------------------------------------- state
VARIABLES
    pfx,          \* what the PKCS12 file at cert_path holds (fixed)
    dps,          \* the caller's DPS objects
    nfse,         \* each document's lifecycle state as the calls report it
    registry,     \* SEFIN's record of each document
    ckey, ccert,  \* NFSeClient._private_key, ._certificate
    skey, scert,  \* XMLSignerService._private_key, ._certificate
    reads,        \* times each holder read and decrypted the PKCS12 file
    cur,          \* the running (or last) call
    pci,          \* position in Flow(cur.kind), 0 = no call running
    entered,      \* _get_client reached its try block
    tmpfiles,     \* temporary PEM files of this call still on disk
    created,      \* temporary PEM files this call created
    reqs,         \* HTTP requests this call sent
    req,          \* the last request sent and how the round trip ended
    resp,         \* the response received
    pending,      \* return value or exception in flight inside the call
    result,       \* what the last call handed to the caller
    doc,          \* a DPS object the caller built by hand
    xml,          \* what XMLBuilder.build_dps returned for it
    sxml,         \* what XMLSignerService.sign returned for that
    dres,         \* how the last of these three steps ended
    arg, ret      \* argument and value of a library function applied alone

vars == <<pfx, dps, nfse, registry, ckey, ccert, skey, scert, reads, cur, pci,
          entered, tmpfiles, created, reqs, req, resp, pending, result,
          doc, xml, sxml, dres, arg, ret>>

\* The state of one call of the client.
call == <<cur, pci, entered, tmpfiles, created, reqs, req, resp, pending, result>>

\* The document bench (DPS, build_dps, sign) and the function bench.
docvars == <<doc, xml, sxml, dres>>
funvars == <<arg, ret>>

caches == <<ckey, ccert, skey, scert, reads>>
world == <<pfx, dps, nfse, registry>>

PfxKinds == {"ok", "missing", "wrongpass", "keyonly", "certonly"}

NoDPS == [built |-> FALSE, id_dps |-> None]

\* No XML document.
NoXml == <<>>

\* A new client and nothing done yet.
Fresh ==
    /\ dps = [d \in Docs |-> NoDPS]
    /\ nfse = [d \in Docs |-> "Draft"]
    /\ registry = [d \in Docs |-> "absent"]
    /\ ckey = None /\ ccert = None /\ skey = None /\ scert = None
    /\ reads = [client |-> 0, signer |-> 0]
    /\ cur = NoCur
    /\ pci = 0
    /\ entered = FALSE
    /\ tmpfiles = {}
    /\ created = {}
    /\ reqs = 0
    /\ req = NoReq
    /\ resp = NoResp
    /\ pending = NoResult
    /\ result = NoResult
    /\ doc = NoDPS
    /\ xml = NoXml
    /\ sxml = NoXml
    /\ dres = NoResult

Init ==
    /\ pfx \in PfxKinds
    /\ Fresh
    /\ arg = <<>>
    /\ ret = <<>>

\* --------------------------------------------------------------- call flows
\* The order of the steps of each operation.  submit_dps builds, signs and
\* encodes first and only then enters _get_client; the others enter at once.
FlowLocalLast(kind) ==
    IF kind = "submit"
    THEN <<"load", "tmpfiles", "build_sign", "request", "parse", "exit">>
    ELSE <<"load", "tmpfiles", "request", "parse", "exit">>

Flow(kind) ==
    IF kind = "submit"
    THEN <<"build_sign", "load", "tmpfiles", "request", "parse", "exit">>
    ELSE <<"load", "tmpfiles", "request", "parse", "exit">>

At(step) == pci > 0 /\ Flow(cur.kind)[pci] = step

ExitIndex == Len(Flow(cur.kind))

\* A step finished normally / raised e.
Continue == pci' = pci + 1 /\ pending' = pending
Throw(e) == pci' = ExitIndex /\ pending' = e

Begin(c) ==
    /\ pci = 0
    /\ cur' = c
    /\ pci' = 1
    /\ entered' = FALSE
    /\ tmpfiles' = {}
    /\ created' = {}
    /\ reqs' = 0
    /\ req' = NoReq
    /\ resp' = NoResp
    /\ pending' = NoResult
    /\ result' = NoResult
    /\ UNCHANGED <<docvars, funvars>>
    /\ UNCHANGED <<world, caches>>


\* ------------------------------------------------------- exception classes
\* httpx: TimeoutException and ConnectError are RequestErrors.
IsTimeoutException(e) == e.out = "raise" /\ e.exc = "TimeoutException"

IsRequestError(e) == e.out = "raise" /\ e.exc \in {"TimeoutException", "ConnectError"}

IsNFSeAPIError(e) == e.out = "raise" /\ e.exc = "NFSeAPIError"

\* Every exception of the model derives from Exception.
IsException(e) == e.out = "raise"

\* ----------------------------------------------------- credential loading
PfxKey(p) == IF p \in {"ok", "keyonly"} THEN "key" ELSE None

PfxCert(p) == IF p \in {"ok", "certonly"} THEN "cert" ELSE None

\* pkcs12.load_key_and_certificates returns for every container it can open
\* and decrypt, whatever the container holds.
Decrypts(p) == p \in {"ok", "keyonly", "certonly"}

\* XMLSignerService._load_certificate: the cache after the call, whether the
\* file was read and decrypted, and the exception raised (NoResult when it
\* returned).
SignerLoad(p, k, c) ==
    IF k # None THEN [key |-> k, cert |-> c, read |-> FALSE, err |-> NoResult]
    ELSE IF p = "missing"
    THEN [key |-> k, cert |-> c, read |-> FALSE,
          err |-> NFSeCertificateError("Arquivo de certificado nao encontrado")]
    ELSE IF p = "wrongpass"
    THEN [key |-> k, cert |-> c, read |-> FALSE,
          err |-> NFSeCertificateError("Erro ao carregar certificado")]
    ELSE [key |-> PfxKey(p), cert |-> PfxCert(p), read |-> Decrypts(p),
          err |-> IF PfxCert(p) = None
                  THEN NFSeCertificateError("Certificado nao encontrado no arquivo")
                  ELSE NoResult]

\* A loader that ignores the cache.
ClientLoadUncached(p, k, c) ==
    [key |-> PfxKey(p), cert |-> PfxCert(p), read |-> Decrypts(p),
     err |-> IF Decrypts(p) THEN NoResult
             ELSE NFSeCertificateError("Error loading certificate")]

\* NFSeClient._load_pkcs12, likewise.
ClientLoad(p, k, c) ==
    IF k # None THEN [key |-> k, cert |-> c, read |-> FALSE, err |-> NoResult]
    ELSE IF p = "missing"
    THEN [key |-> k, cert |-> c, read |-> FALSE,
          err |-> NFSeCertificateError("Certificate file not found")]
    ELSE IF p = "wrongpass"
    THEN [key |-> k, cert |-> c, read |-> FALSE,
          err |-> NFSeCertificateError("Error loading certificate")]
    ELSE [key |-> PfxKey(p), cert |-> PfxCert(p), read |-> Decrypts(p),
          err |-> IF PfxKey(p) = None
                  THEN NFSeCertificateError("Private key not found in certificate")
                  ELSE IF PfxCert(p) = None
                  THEN NFSeCertificateError("Certificate not found in PKCS12 file")
                  ELSE NoResult]

\* One more read by a holder.
Bump(n) == IF n < MaxReads THEN n + 1 ELSE n

\* ------------------------------------------------------------ the document
\* Amounts are in centavos.
ValorChoices == {-10000, 0, 50000}

\* Servico.validate_valor_servicos
validate_valor_servicos(v) == v > 0

\* NFSeClient(..., ambiente="homologacao")
ambiente == "homologacao"

\* ------------------------------------------------------------ text helpers
DigitChars == {"0", "1", "2", "3", "4", "5", "6", "7", "8", "9"}

CharAt(t, i) == SubSeq(t, i, i)

\* Every character of t from position i on is an ASCII digit: [0-9]*
IsDigits(t, i) == \A j \in i .. Len(t) : CharAt(t, j) \in DigitChars

\* re.match(r"^...$", v): `$` also matches before one trailing newline, so
\* the pattern is tried on v without it.
BeforeDollar(v) ==
    IF Len(v) > 0 /\ CharAt(v, Len(v)) = "\n" THEN SubSeq(v, 1, Len(v) - 1) ELSE v

\* str(n) of a natural number
RECURSIVE NatStr(_)
NatStr(n) == IF n < 10 THEN Digit(n) ELSE NatStr(n \div 10) \o Digit(n % 10)

\* n formatted with at least w digits: %02d, %04d
RECURSIVE Pad(_, _)
Pad(t, w) == IF Len(t) >= w THEN t ELSE Pad("0" \o t, w)

\* XMLBuilder._format_decimal, f"{value:.2f}", of an amount held in centavos
format_decimal(c) == NatStr(c \div 100) \o "." \o Pad(NatStr(c % 100), 2)

\* datetime.strftime("%Y-%m"): year and month only.
strftime_month(t) == Pad(NatStr(t.Y), 4) \o "-" \o Pad(NatStr(t.M), 2)

\* datetime.strftime("%Y-%m-%d") and ("%Y-%m-%dT%H:%M:%S-03:00")
strftime_date(t) ==
    Pad(NatStr(t.Y), 4) \o "-" \o Pad(NatStr(t.M), 2) \o "-" \o Pad(NatStr(t.D), 2)

strftime_dhEmi(t) ==
    strftime_date(t) \o "T" \o Pad(NatStr(t.h), 2) \o ":" \o Pad(NatStr(t.m), 2)
        \o ":" \o Pad(NatStr(t.s), 2) \o "-03:00"

\* ------------------------------------------------------------- DPS objects
\* The document of the builder's tests (sample_dps), fields flattened.
\* aliquota_simples is in hundredths of a percent, NoRate when not given.
NoRate == -1

SampleDPS ==
    [built |-> TRUE, id_dps |-> None, serie |-> "900", numero |-> 1,
     competencia |-> "2026-01",
     data_emissao |-> [Y |-> 2026, M |-> 1, D |-> 15, h |-> 10, m |-> 30, s |-> 0],
     regime_tributario |-> "simples_nacional", optante_simples |-> TRUE,
     prest_cnpj |-> "11222333000181", prest_im |-> "12345",
     prest_telefone |-> "1999999999", prest_email |-> "contato@clinica.com",
     prest_codigo_municipio |-> 3509502,
     toma_cpf |-> "52998224725", toma_cnpj |-> None,
     toma_razao_social |-> "Joao Silva",
     toma_endereco |-> TRUE, toma_complemento |-> "Sala 1",
     codigo_lc116 |-> "040303", codigo_tributacao_municipal |-> "123456",
     codigo_nbs |-> "1.0101.01.00", discriminacao |-> "Consulta medica",
     valor_servicos |-> 50000, iss_retido |-> FALSE, aliquota_simples |-> 1550]

\* DPS.validate_id_dps: None, or re.match(r"^DPS[0-9]{42}$", v)
validate_id_dps(v) ==
    \/ v = None
    \/ LET b == BeforeDollar(v)
       IN  Len(b) = 45 /\ SubSeq(b, 1, 3) = "DPS" /\ IsDigits(b, 4)

\* DPS.validate_serie: re.match(r"^0{0,4}\d{1,5}$", v)
validate_serie(v) ==
    LET b == BeforeDollar(v)
    IN  /\ Len(b) \in 1 .. 9
        /\ IsDigits(b, 1)
        /\ \A j \in 1 .. Len(b) - 5 : CharAt(b, j) = "0"

\* DPS.validate_competencia: re.match(r"^\d{4}-(0[1-9]|1[0-2])$", v)
validate_competencia(v) ==
    LET b == BeforeDollar(v)
    IN  /\ Len(b) = 7
        /\ \A j \in 1 .. 4 : CharAt(b, j) \in DigitChars
        /\ CharAt(b, 5) = "-"
        /\ SubSeq(b, 6, 7) \in {"01", "02", "03", "04", "05", "06",
                                "07", "08", "09", "10", "11", "12"}

\* DPS.validate_regime_tributario
validate_regime_tributario(v) ==
    v \in {"simples_nacional", "simples_excesso", "normal", "mei"}

\* int(d) of a digit character
DigitValue(ch) == CHOOSE n \in 0 .. 9 : Digit(n) = ch

\* re.sub(pattern, "", t) for a pattern that is a character class, [...] or
\* negated [^...]: the characters of t the class does not match.
RECURSIVE re_sub(_, _, _)
re_sub(negated, class, t) ==
    IF t = "" THEN ""
    ELSE (IF (CharAt(t, 1) \in class) # negated THEN "" ELSE CharAt(t, 1))
            \o re_sub(negated, class, SubSeq(t, 2, Len(t)))

\* sum(int(d) * w for d, w in zip(partial, weights)): zip stops at the shorter
RECURSIVE WeightedSum(_, _)
WeightedSum(partial, weights) ==
    IF partial = "" \/ weights = <<>> THEN 0
    ELSE DigitValue(CharAt(partial, 1)) * weights[1]
            + WeightedSum(SubSeq(partial, 2, Len(partial)), Tail(weights))

\* calc_digit of _validate_cpf_digits, _validate_cnpj_digits and validate_cnpj
calc_digit(partial, weights) ==
    IF (WeightedSum(partial, weights) % 11) < 2 THEN 0
    ELSE 11 - (WeightedSum(partial, weights) % 11)

\* t == t[0] * len(t)
Repeated(t) == \A j \in 1 .. Len(t) : CharAt(t, j) = CharAt(t, 1)

CpfWeights == <<11, 10, 9, 8, 7, 6, 5, 4, 3, 2>>

CnpjWeights == <<6, 5, 4, 3, 2, 9, 8, 7, 6, 5, 4, 3, 2>>

\* models._validate_cpf_digits
validate_cpf_digits(cpf) ==
    /\ Len(cpf) = 11
    /\ ~Repeated(cpf)
    /\ SubSeq(cpf, 10, 11) =
           Digit(calc_digit(SubSeq(cpf, 1, 9), Tail(CpfWeights)))
              \o Digit(calc_digit(SubSeq(cpf, 1, 10), CpfWeights))

\* A check of the second digit alone.
validate_cnpj_digits_d2_only(cnpj) ==
    /\ Len(cnpj) = 14
    /\ ~Repeated(cnpj)
    /\ CharAt(cnpj, 14) = Digit(calc_digit(SubSeq(cnpj, 1, 13), CnpjWeights))

\* models._validate_cnpj_digits: the second digit is computed from the first
\* 13 characters as they stand.
validate_cnpj_digits(cnpj) ==
    /\ Len(cnpj) = 14
    /\ ~Repeated(cnpj)
    /\ SubSeq(cnpj, 13, 14) =
           Digit(calc_digit(SubSeq(cnpj, 1, 12), Tail(CnpjWeights)))
              \o Digit(calc_digit(SubSeq(cnpj, 1, 13), CnpjWeights))

\* utils.validate_cnpj: everything but digits is dropped first, and the second
\* digit is computed from the first 12 characters and the first digit computed.
utils_validate_cnpj(v) ==
    LET cnpj == re_sub(TRUE, DigitChars, v)
        d1 == calc_digit(SubSeq(cnpj, 1, 12), Tail(CnpjWeights))
        d2 == calc_digit(SubSeq(cnpj, 1, 12) \o Digit(d1), CnpjWeights)
    IN  /\ Len(cnpj) = 14
        /\ ~Repeated(cnpj)
        /\ SubSeq(cnpj, 13, 14) = Digit(d1) \o Digit(d2)

\* Tomador.validate_cpf (None is left alone): re.sub(r"[.\-]", "", v), then
\* re.match(r"^[0-9]{11}$", ...), then the check digits.
validate_cpf(v) ==
    LET clean == re_sub(FALSE, {".", "-"}, v)
    IN  /\ Len(BeforeDollar(clean)) = 11
        /\ IsDigits(BeforeDollar(clean), 1)
        /\ validate_cpf_digits(clean)

\* Prestador.validate_cnpj and Tomador.validate_cnpj:
\* re.sub(r"[.\-/]", "", v), then re.match(r"^[0-9]{14}$", ...), then the
\* check digits.
validate_cnpj(v) ==
    LET clean == re_sub(FALSE, {".", "-", "/"}, v)
    IN  /\ Len(BeforeDollar(clean)) = 14
        /\ IsDigits(BeforeDollar(clean), 1)
        /\ validate_cnpj_digits(clean)

\* Tomador.validate_cpf_or_cnpj
validate_cpf_or_cnpj(cpf, cnpj) == ~(cpf = None /\ cnpj = None)

\* DPS(...): the first validator that fails names the ValidationError;
\* "" when the object is constructed.
ValidationFailure(o) ==
    IF ~validate_cnpj(o.prest_cnpj)
    THEN "CNPJ invalido"
    ELSE IF o.toma_cpf # None /\ ~validate_cpf(o.toma_cpf)
    THEN "CPF invalido"
    ELSE IF o.toma_cnpj # None /\ ~validate_cnpj(o.toma_cnpj)
    THEN "CNPJ invalido"
    ELSE IF ~validate_cpf_or_cnpj(o.toma_cpf, o.toma_cnpj)
    THEN "Tomador deve ter CPF ou CNPJ informado"
    ELSE IF ~validate_valor_servicos(o.valor_servicos)
    THEN "valor_servicos deve ser maior que zero"
    ELSE IF ~validate_id_dps(o.id_dps)
    THEN "id_dps deve seguir o padrao"
    ELSE IF ~validate_serie(o.serie)
    THEN "serie deve ser numerica"
    ELSE IF o.numero <= 0
    THEN "Input should be greater than 0"
    ELSE IF ~validate_competencia(o.competencia)
    THEN "competencia deve estar no formato YYYY-MM"
    ELSE IF ~validate_regime_tributario(o.regime_tributario)
    THEN "regime_tributario invalido"
    ELSE ""

\* ---------------------------------------------------------------- XML trees
\* XMLBuilder.NAMESPACE and the XML-DSig namespace of signxml
NFSE_NS == "http://www.sped.fazenda.gov.br/nfse"

DS_NS == "http://www.w3.org/2000/09/xmldsig#"

\* An element: tag, namespace, prefix, the Id and URI attributes ("" when
\* absent), text and children.
Elem(tag, text, kids) ==
    [tag |-> tag, ns |-> NFSE_NS, prefix |-> "", id |-> "", uri |-> "",
     text |-> text, kids |-> kids]

Leaf(tag, text) == Elem(tag, text, <<>>)

\* One optional child: present when the field is truthy.
Opt(tag, v) == IF v = None \/ v = "" THEN <<>> ELSE <<Leaf(tag, v)>>

\* str.replace(".", "")
RECURSIVE RemoveDots(_)
RemoveDots(t) ==
    IF t = "" THEN ""
    ELSE (IF CharAt(t, 1) = "." THEN "" ELSE CharAt(t, 1))
            \o RemoveDots(SubSeq(t, 2, Len(t)))

\* str.rjust(w)
RECURSIVE RJust(_, _)
RJust(t, w) == IF Len(t) >= w THEN t ELSE RJust(" " \o t, w)

\* XMLBuilder._map_regime_especial
map_regime_especial(regime) ==
    CASE regime = "mei" -> "4"
      [] regime = "cooperativa" -> "1"
      [] regime = "estimativa" -> "2"
      [] regime = "sociedade_profissionais" -> "3"
      [] regime = "microempresario_individual" -> "4"
      [] regime = "microempresa_epp" -> "5"
      [] OTHER -> "0"

\* XMLBuilder._add_prestador
add_prestador(o) ==
    Elem("prest", "",
         <<Leaf("CNPJ", o.prest_cnpj), Leaf("IM", RJust(o.prest_im, 15))>>
         \o Opt("fone", o.prest_telefone)
         \o Opt("email", o.prest_email)
         \o <<Elem("regTrib", "",
                   <<Leaf("opSimpNac", IF o.optante_simples THEN "3" ELSE "1")>>
                   \o (IF o.optante_simples
                       THEN <<Leaf("regApTribSN", "1")>> ELSE <<>>)
                   \o <<Leaf("regEspTrib",
                             map_regime_especial(o.regime_tributario))>>)>>)

\* XMLBuilder._add_tomador (the address is the one of the tests)
add_tomador(o) ==
    Elem("toma", "",
         (IF o.toma_cpf # None /\ o.toma_cpf # ""
          THEN <<Leaf("CPF", o.toma_cpf)>>
          ELSE IF o.toma_cnpj # None /\ o.toma_cnpj # ""
          THEN <<Leaf("CNPJ", o.toma_cnpj)>>
          ELSE <<>>)
         \o <<Leaf("xNome", o.toma_razao_social)>>
         \o (IF o.toma_endereco
             THEN <<Elem("end", "",
                         <<Elem("endNac", "",
                                <<Leaf("cMun", NatStr(o.prest_codigo_municipio)),
                                  Leaf("CEP", "13000000")>>),
                           Leaf("xLgr", "Rua Teste"), Leaf("nro", "100")>>
                         \o Opt("xCpl", o.toma_complemento)
                         \o <<Leaf("xBairro", "Centro")>>)>>
             ELSE <<>>))

\* XMLBuilder._add_servico
add_servico(o) ==
    Elem("serv", "",
         <<Elem("locPrest", "",
                <<Leaf("cLocPrestacao", NatStr(o.prest_codigo_municipio))>>),
           Elem("cServ", "",
                <<Leaf("cTribNac", Pad(RemoveDots(o.codigo_lc116), 6))>>
                \o Opt("cTribMun", o.codigo_tributacao_municipal)
                \o <<Leaf("xDescServ", o.discriminacao)>>
                \o Opt("cNBS", o.codigo_nbs))>>)

\* aliquota_sn = getattr(dps.servico, 'aliquota_simples', None) or Decimal("18.83")
aliquota_sn(o) ==
    IF o.aliquota_simples = NoRate \/ o.aliquota_simples = 0
    THEN 1883 ELSE o.aliquota_simples

\* A values block that carries both total-tax shapes.
add_valores_both(o) ==
    Elem("valores", "",
         <<Elem("vServPrest", "", <<Leaf("vServ", format_decimal(o.valor_servicos))>>),
           Elem("trib", "",
                <<Elem("tribMun", "",
                       <<Leaf("tribISSQN", "1"),
                         Leaf("tpRetISSQN", IF o.iss_retido THEN "2" ELSE "1")>>),
                  Elem("totTrib", "",
                       <<Leaf("pTotTribSN", format_decimal(aliquota_sn(o))),
                         Elem("pTotTrib", "",
                              <<Leaf("pTotTribFed", "0"), Leaf("pTotTribEst", "0"),
                                Leaf("pTotTribMun", "0")>>)>>)>>)>>)

\* XMLBuilder._add_valores
add_valores(o) ==
    Elem("valores", "",
         <<Elem("vServPrest", "", <<Leaf("vServ", format_decimal(o.valor_servicos))>>),
           Elem("trib", "",
                <<Elem("tribMun", "",
                       <<Leaf("tribISSQN", "1"),
                         Leaf("tpRetISSQN", IF o.iss_retido THEN "2" ELSE "1")>>),
                  Elem("totTrib", "",
                       IF o.optante_simples
                       THEN <<Leaf("pTotTribSN", format_decimal(aliquota_sn(o)))>>
                       ELSE <<Elem("pTotTrib", "",
                                   <<Leaf("pTotTribFed", "0"),
                                     Leaf("pTotTribEst", "0"),
                                     Leaf("pTotTribMun", "0")>>)>>)>>)>>)

TypeError == Raise("TypeError", "cannot serialize None (type NoneType)", None, NoStatus)

\* The blocks with the recipient ahead of the provider.
add_blocks_tomador_first(o) ==
    <<add_tomador(o), add_prestador(o), add_servico(o), add_valores(o)>>

\* The four calls that end build_dps, in their order.
add_blocks(o) ==
    <<add_prestador(o), add_tomador(o), add_servico(o), add_valores(o)>>

\* XMLBuilder.build_dps: the Id attribute is dps.id_dps as it stands, and
\* ET.tostring cannot serialize an attribute that is None.  err is the
\* exception raised (NoResult when the document was returned).
build_dps(amb, o) ==
    [err |-> IF o.id_dps = None THEN TypeError ELSE NoResult,
     xml |-> IF o.id_dps = None THEN NoXml
             ELSE Elem("DPS", "",
                    <<[Elem("infDPS", "",
                        <<Leaf("tpAmb", IF amb = "producao" THEN "1" ELSE "2"),
                          Leaf("dhEmi", strftime_dhEmi(o.data_emissao)),
                          Leaf("verAplic", "pynfse-1.0"),
                          Leaf("serie", o.serie),
                          Leaf("nDPS", NatStr(o.numero)),
                          Leaf("dCompet", strftime_date(o.data_emissao)),
                          Leaf("tpEmit", "1"),
                          Leaf("cLocEmi", NatStr(o.prest_codigo_municipio))>>
                        \o add_blocks(o)) EXCEPT !.id = o.id_dps]>>)]

\* ------------------------------------------------------------------ signing
\* xml_element.find(".//{NFSE_NS}infDPS"): the first descendant of the root
\* (children, then their children; documents here are no deeper) with that
\* name, <<>> when there is none.
find_infDPS(x) ==
    LET hit(e) == e.tag = "infDPS" /\ e.ns = NFSE_NS
        kids == x.kids
        deep == [i \in 1 .. Len(kids) |->
                    SelectSeq(<<kids[i]>>, hit) \o SelectSeq(kids[i].kids, hit)]
        first == {i \in 1 .. Len(kids) : deep[i] # <<>>}
    IN  IF x = NoXml \/ first = {} THEN <<>>
        ELSE <<deep[CHOOSE i \in first : \A j \in first : i <= j][1]>>

\* The Signature element signxml builds: the reference URI it was given, and
\* the namespace prefix signer.namespaces sets.
Signature(prefix, uri) ==
    [Elem("Signature", "",
          <<[Elem("SignedInfo", "",
                  <<[Leaf("Reference", "") EXCEPT !.ns = DS_NS, !.prefix = prefix,
                                                   !.uri = uri]>>)
                EXCEPT !.ns = DS_NS, !.prefix = prefix],
            [Leaf("SignatureValue", "sig") EXCEPT !.ns = DS_NS, !.prefix = prefix],
            [Leaf("KeyInfo", "cert") EXCEPT !.ns = DS_NS, !.prefix = prefix]>>)
        EXCEPT !.ns = DS_NS, !.prefix = prefix]

\* A signer that leaves signxml's default prefix in place.
sign_prefixed(x, k, c) ==
    [err |-> IF find_infDPS(x) = <<>> \/ k = None \/ c = None
             THEN NFSeCertificateError("Erro ao assinar XML") ELSE NoResult,
     xml |-> IF find_infDPS(x) = <<>> \/ k = None \/ c = None THEN NoXml
             ELSE [x EXCEPT !.kids = @ \o <<Signature("ds", "#" \o find_infDPS(x)[1].id)>>]]

\* XMLSignerService.sign after _load_certificate returned: the checks on
\* infDPS and its Id, then the enveloped signature, which signxml appends to
\* the element it signs (the root) and refuses without a key or certificate.
\* Every failure leaves as NFSeCertificateError.
sign(x, k, c) ==
    LET inf == find_infDPS(x)
        err == IF inf = <<>>
               THEN NFSeCertificateError("infDPS element not found in XML")
               ELSE IF inf[1].id = ""
               THEN NFSeCertificateError("infDPS Id attribute not found")
               ELSE IF k = None \/ c = None
               THEN NFSeCertificateError("Erro ao assinar XML")
               ELSE NoResult
    IN  [err |-> err,
         xml |-> IF err.out = "raise" THEN NoXml
                 ELSE [x EXCEPT !.kids = @ \o <<Signature("", "#" \o inf[1].id)>>]]

\* ------------------------------------------------------------ caller steps
\* The caller constructs DPS(...): pydantic validates and raises, or the
\* object exists.
CreateDPS(d, v, id) ==
    /\ pci = 0
    /\ nfse[d] = "Draft"
    /\ cur' = [NoCur EXCEPT !.kind = "create", !.doc = d]
    /\ IF validate_valor_servicos(v)
       THEN /\ dps' = [dps EXCEPT ![d] = [built |-> TRUE, id_dps |-> id]]
            /\ result' = [NoResult EXCEPT !.out = "return"]
       ELSE /\ dps' = dps
            /\ result' = Raise("ValidationError",
                               "valor_servicos deve ser maior que zero",
                               None, NoStatus)
    /\ entered' = FALSE /\ tmpfiles' = {} /\ created' = {} /\ reqs' = 0
    /\ req' = NoReq /\ resp' = NoResp /\ pending' = NoResult
    /\ UNCHANGED <<docvars, funvars>>
    /\ UNCHANGED <<pfx, nfse, registry, caches, pci>>

\* Keys the caller holds: those submit_dps returned, and the fake one.
KnownKeys == {KeyOf(d) : d \in {x \in Docs : nfse[x] \in {"Issued", "Cancelled"}}}
                \cup {ZeroKey}

Reasons == {"Teste de cancelamento"}

StartSubmit(d) ==
    /\ dps[d].built
    /\ nfse[d] = "Draft"
    /\ Begin([NoCur EXCEPT !.kind = "submit", !.doc = d])

StartQuery(k) == Begin([NoCur EXCEPT !.kind = "query", !.chave = k])

StartDownload(k) == Begin([NoCur EXCEPT !.kind = "download", !.chave = k])

StartCancel(k, why) ==
    Begin([NoCur EXCEPT !.kind = "cancel", !.chave = k, !.reason = why])

\* ------------------------------------------------- submit_dps, local part
\* build_dps, sign (with the signer's own certificate load), compress_encode.
BuildSign ==
    /\ At("build_sign")
    /\ LET built == build_dps(ambiente, [SampleDPS EXCEPT !.id_dps = dps[cur.doc].id_dps])
           ld == SignerLoad(pfx, skey, scert)
           sg == sign(built.xml, ld.key, ld.cert).err
       IN  IF built.err.out = "raise"
           THEN /\ Throw(built.err)
                /\ UNCHANGED <<skey, scert, reads>>
           ELSE /\ skey' = ld.key
                /\ scert' = ld.cert
                /\ reads' = IF ld.read
                            THEN [reads EXCEPT !.signer = Bump(@)] ELSE reads
                /\ IF ld.err.out = "raise" THEN Throw(ld.err)
                   ELSE IF sg.out = "raise" THEN Throw(sg)
                   ELSE Continue
    /\ UNCHANGED <<docvars, funvars>>
    /\ UNCHANGED <<world, ckey, ccert, cur, entered, tmpfiles, created,
                   reqs, req, resp, result>>

\* ------------------------------------------------------------- _get_client
\* _load_pkcs12 and the PEM serialization of key and certificate.
LoadPkcs12 ==
    /\ At("load")
    /\ LET ld == ClientLoad(pfx, ckey, ccert)
       IN  /\ ckey' = ld.key
           /\ ccert' = ld.cert
           /\ reads' = IF ld.read
                       THEN [reads EXCEPT !.client = Bump(@)] ELSE reads
           /\ IF ld.err.out = "raise" THEN Throw(ld.err)
              ELSE IF ld.cert = None
              THEN Throw(Raise("AttributeError",
                               "'NoneType' object has no attribute 'public_bytes'",
                               None, NoStatus))
              ELSE Continue
    /\ UNCHANGED <<docvars, funvars>>
    /\ UNCHANGED <<world, skey, scert, cur, entered, tmpfiles, created,
                   reqs, req, resp, result>>

\* The two NamedTemporaryFile(delete=False) blocks, before the try block.
\* A write can fail (disk full): the file exists by then.
TmpFaults == {"none", "cert_write", "key_write"}

OSError == Raise("OSError", "No space left on device", None, NoStatus)

WriteTempFiles(fault) ==
    /\ At("tmpfiles")
    /\ IF fault = "cert_write"
       THEN /\ created' = {"cert"}
            /\ tmpfiles' = {"cert"}
            /\ entered' = FALSE
            /\ Throw(OSError)
       ELSE IF fault = "key_write"
       THEN /\ created' = {"cert", "key"}
            /\ tmpfiles' = {"cert", "key"}
            /\ entered' = FALSE
            /\ Throw(OSError)
       ELSE /\ created' = {"cert", "key"}
            /\ tmpfiles' = {"cert", "key"}
            /\ entered' = TRUE
            /\ Continue
    /\ UNCHANGED <<docvars, funvars>>
    /\ UNCHANGED <<world, caches, cur, reqs, req, resp, result>>


\* ------------------------------------------------------------------- SEFIN
\* Bodies of non-success responses: the structured {codigo, mensagem} object,
\* an object without those fields, JSON that is not an object, text that is
\* not JSON (a gateway's page), and no body at all.
ErrBodies ==
    {[json |-> "obj", text |-> "{codigo:E0160,mensagem:DPS invalida}",
      codigo |-> "E0160", mensagem |-> "DPS invalida"],
     [json |-> "obj", text |-> "{}", codigo |-> None, mensagem |-> None],
     [json |-> "list", text |-> "[]", codigo |-> None, mensagem |-> None],
     [json |-> "none", text |-> "<html>Bad Gateway</html>",
      codigo |-> None, mensagem |-> None],
     [json |-> "none", text |-> "", codigo |-> None, mensagem |-> None]}

ErrResp(s, b) ==
    [NoResp EXCEPT !.status = s, !.json = b.json, !.text = b.text,
                   !.codigo = b.codigo, !.mensagem = b.mensagem]

ErrReplies(statuses, reg) ==
    {[resp |-> ErrResp(s, b), reg |-> reg] : s \in statuses, b \in ErrBodies}

\* Where the success body carries the compressed invoice XML.
XmlPlaces == {"none", "nfse", "nfseXmlGZipB64"}

IssuedResp(d, place) ==
    [NoResp EXCEPT !.status = 200, !.json = "obj", !.text = "{...}",
                   !.chaveAcesso = KeyOf(d), !.nNFSe = Digit(d),
                   !.nfse = IF place = "nfse"
                            THEN compress_encode(XmlOf(d)) ELSE None,
                   !.nfseXmlGZipB64 = IF place = "nfseXmlGZipB64"
                                      THEN compress_encode(XmlOf(d)) ELSE None]

Situacao(st) == IF st = "cancelled" THEN "cancelada" ELSE "emitida"

QueryResp(d, st) ==
    [NoResp EXCEPT !.status = 200, !.json = "obj", !.text = "{...}",
                   !.chaveAcesso = KeyOf(d), !.nNFSe = Digit(d),
                   !.nfse = compress_encode(XmlOf(d)),
                   !.situacao = Situacao(st)]

EventResp(s, d) ==
    [NoResp EXCEPT !.status = s, !.json = "obj", !.text = "{...}",
                   !.protocolo = "PROT" \o Digit(d)]

PdfResp == [NoResp EXCEPT !.status = 200, !.text = "%PDF-1.4",
                          !.ctype = "application/pdf"]

\* Other 200 answers of the document endpoint: the PDF served as a plain
\* byte stream, and a page that is not a PDF at all.
PdfAsBytesResp == [PdfResp EXCEPT !.ctype = "application/octet-stream"]

HtmlResp == [NoResp EXCEPT !.status = 200, !.text = "<html>Login</html>",
                           !.ctype = "text/html"]

DocumentReplies == {PdfResp, PdfAsBytesResp, HtmlResp}

Holders(k, reg, states) == {d \in Docs : KeyOf(d) = k /\ reg[d] \in states}

\* What the service may answer to a request, and its registry afterwards.
\* POST /nfse issues the document or rejects it; GET never changes anything;
\* POST /eventos cancels an issued document and knows no other one.
ServerReplies(c, reg) ==
    CASE c.kind = "submit" ->
           IF reg[c.doc] = "absent"
           THEN {[resp |-> IssuedResp(c.doc, place),
                  reg |-> [reg EXCEPT ![c.doc] = "issued"]] : place \in XmlPlaces}
                \cup ErrReplies({400, 500}, reg)
           ELSE ErrReplies({400}, reg)
      [] c.kind = "query" ->
           {[resp |-> QueryResp(d, reg[d]), reg |-> reg] :
                d \in Holders(c.chave, reg, {"issued", "cancelled"})}
           \cup (IF Holders(c.chave, reg, {"issued", "cancelled"}) = {}
                 THEN ErrReplies({404}, reg) ELSE {})
           \cup ErrReplies({500}, reg)
      [] c.kind = "download" ->
           {[resp |-> r, reg |-> reg] :
                r \in {x \in DocumentReplies :
                          Holders(c.chave, reg, {"issued", "cancelled"}) # {}}}
           \cup (IF Holders(c.chave, reg, {"issued", "cancelled"}) = {}
                 THEN ErrReplies({404}, reg) ELSE {})
           \cup ErrReplies({500}, reg)
      [] c.kind = "cancel" ->
           {[resp |-> EventResp(s, d), reg |-> [reg EXCEPT ![d] = "cancelled"]] :
                s \in {200, 201}, d \in Holders(c.chave, reg, {"issued"})}
           \cup (IF Holders(c.chave, reg, {"issued"}) = {}
                 THEN ErrReplies({404}, reg) ELSE {})
           \cup ErrReplies({500}, reg)

\* ------------------------------------------------------------- the request
RequestOfWrongEvent(c) ==
    [NoReq EXCEPT !.method = IF c.kind \in {"submit", "cancel"} THEN "POST" ELSE "GET",
                  !.endpoint = IF c.kind = "cancel" THEN "/eventos" ELSE "/nfse",
                  !.tpEvento = IF c.kind = "cancel" THEN "101101" ELSE None,
                  !.chNFSe = c.chave, !.xMotivo = c.reason]

\* The request each operation sends: client.post / client.get and its payload.
RequestOf(c) ==
    CASE c.kind = "submit" ->
           [NoReq EXCEPT !.method = "POST", !.endpoint = "/nfse",
                         !.dps = compress_encode("<DPS>" \o dps[c.doc].id_dps \o "</DPS>")]
      [] c.kind = "query" ->
           [NoReq EXCEPT !.method = "GET", !.endpoint = "/nfse/" \o c.chave]
      [] c.kind = "download" ->
           [NoReq EXCEPT !.method = "GET", !.endpoint = "/danfse/" \o c.chave]
      [] c.kind = "cancel" ->
           [NoReq EXCEPT !.method = "POST", !.endpoint = "/eventos",
                         !.tpEvento = "110111", !.chNFSe = c.chave,
                         !.xMotivo = c.reason]

\* Whether the operation sends the request again after a failed attempt.
\* The except clauses raise at once: there is no retry loop.
RetryOnTimeout(outcome, n) == outcome = "timeout" /\ n < 2

Retries(outcome, n) == FALSE

\* A document goes Draft -> Submitted when its POST leaves.
Submitted(c, st) ==
    IF c.kind = "submit" THEN [st EXCEPT ![c.doc] = "Submitted"] ELSE st

\* httpx.Client(...) cannot be built from the PEM files: raised inside the
\* try block, before anything is sent.
ClientSetupFails ==
    /\ At("request")
    /\ Throw(Raise("SSLError", "PEM lib", None, NoStatus))
    /\ UNCHANGED <<docvars, funvars>>
    /\ UNCHANGED <<world, caches, cur, entered, tmpfiles, created, reqs, req,
                   resp, result>>

\* client.post / client.get: one blocking round trip.  The service answers,
\* the call times out (the service may or may not have acted), or the
\* connection fails.
SendRequest(outcome) ==
    /\ At("request")
    /\ req' = [RequestOf(cur) EXCEPT !.outcome = outcome]
    /\ reqs' = reqs + 1
    /\ nfse' = Submitted(cur, nfse)
    /\ \E r \in ServerReplies(cur, registry) :
         CASE outcome = "response" ->
                /\ resp' = r.resp
                /\ registry' = r.reg
                /\ Continue
           [] outcome = "timeout" ->
                /\ resp' = NoResp
                /\ registry' \in {registry, r.reg}
                /\ IF Retries(outcome, reqs + 1)
                   THEN pci' = pci /\ pending' = pending
                   ELSE Throw(Raise("TimeoutException", "timed out", None, NoStatus))
           [] outcome = "connerr" ->
                /\ resp' = NoResp
                /\ registry' = registry
                /\ IF Retries(outcome, reqs + 1)
                   THEN pci' = pci /\ pending' = pending
                   ELSE Throw(Raise("ConnectError", "connection refused", None, NoStatus))
    /\ UNCHANGED <<docvars, funvars>>
    /\ UNCHANGED <<pfx, dps, caches, cur, entered, tmpfiles, created, result>>


\* ------------------------------------------------------- response parsing
JSONDecodeError == Raise("JSONDecodeError", "Expecting value", None, NoStatus)

AttributeError == Raise("AttributeError", "'list' object has no attribute 'get'",
                        None, NoStatus)

KeyError(k) == Raise("KeyError", k, None, NoStatus)

\* The nfse field of a success body: decoded, or kept raw when decoding fails.
DecodedXml(r) ==
    IF r.nfse = None \/ r.nfse = "" THEN None
    ELSE IF decode_decompress(r.nfse) = DecodeError THEN r.nfse
    ELSE decode_decompress(r.nfse)

\* The error branch shared by _parse_dps_response and _parse_event_response:
\* the body's codigo/mensagem, or, when reading them raises, status and text.
ErrorFields(r) ==
    IF r.json = "obj"
    THEN [NoResult EXCEPT !.out = "return", !.success = FALSE,
                          !.error_code = Or(r.codigo, StatusStr(r.status)),
                          !.error_message = Or(r.mensagem, "Erro desconhecido")]
    ELSE [NoResult EXCEPT !.out = "return", !.success = FALSE,
                          !.error_code = StatusStr(r.status),
                          !.error_message = Or(r.text, "Erro desconhecido")]

\* response.status_code == 200
DpsOkAny(s) == s < 500

DpsOk(s) == s = 200

\* NFSeClient._parse_dps_response
parse_dps_response(r) ==
    IF DpsOk(r.status)
    THEN IF r.json = "none" THEN JSONDecodeError
         ELSE IF r.json = "list" THEN AttributeError
         ELSE [NoResult EXCEPT !.out = "return", !.success = TRUE,
                               !.chave_acesso = r.chaveAcesso,
                               !.nfse_number = r.nNFSe,
                               !.xml_nfse = DecodedXml(r)]
    ELSE ErrorFields(r)

\* response.status_code in (200, 201)
EventOkAlways(s) == TRUE

EventOk(s) == s \in {200, 201}

\* NFSeClient._parse_event_response
parse_event_response(r) ==
    IF EventOk(r.status)
    THEN IF r.json = "none" THEN JSONDecodeError
         ELSE IF r.json = "list" THEN AttributeError
         ELSE [NoResult EXCEPT !.out = "return", !.success = TRUE,
                               !.protocolo = r.protocolo]
    ELSE ErrorFields(r)

\* The non-200 branch of query_nfse and download_danfse:
\* error_data = response.json() if response.text else {}; raise NFSeAPIError.
RaiseForStatus(r, default) ==
    IF r.text = "" THEN NFSeAPIError(default, None, r.status)
    ELSE IF r.json = "none" THEN JSONDecodeError
    ELSE IF r.json = "list" THEN AttributeError
    ELSE NFSeAPIError(IF r.mensagem = None THEN default ELSE r.mensagem,
                      r.codigo, r.status)

\* The body of query_nfse after client.get
parse_query(r) ==
    IF r.status # 200 THEN RaiseForStatus(r, "Erro ao consultar NFSe")
    ELSE IF r.json = "none" THEN JSONDecodeError
    ELSE IF r.json = "list" THEN AttributeError
    ELSE IF r.chaveAcesso = None THEN KeyError("chaveAcesso")
    ELSE IF r.nNFSe = None THEN KeyError("nNFSe")
    ELSE [NoResult EXCEPT !.out = "return",
                          !.chave_acesso = r.chaveAcesso,
                          !.nfse_number = r.nNFSe,
                          !.status = IF r.situacao = None THEN "emitida"
                                     ELSE r.situacao,
                          !.xml_nfse = DecodedXml(r)]

\* The body of download_danfse after client.get
parse_download(r) ==
    IF r.status # 200 THEN RaiseForStatus(r, "Erro ao baixar DANFSe")
    ELSE [NoResult EXCEPT !.out = "return", !.content = r.text]

Parsed(c, r) ==
    CASE c.kind = "submit" -> parse_dps_response(r)
      [] c.kind = "cancel" -> parse_event_response(r)
      [] c.kind = "query" -> parse_query(r)
      [] c.kind = "download" -> parse_download(r)

\* The rest of the with block: the response is turned into the return value
\* or an exception is raised.
ParseResponse ==
    /\ At("parse")
    /\ LET p == Parsed(cur, resp)
       IN  IF p.out = "raise" THEN Throw(p)
           ELSE pci' = pci + 1 /\ pending' = p
    /\ UNCHANGED <<docvars, funvars>>
    /\ UNCHANGED <<world, caches, cur, entered, tmpfiles, created, reqs, req,
                   resp, result>>

\* -------------------------------------------------------- leaving the call
\* _get_client after the yield: an exception thrown into the generator is
\* caught by `except Exception` and replaced; a normal exit closes the client.
ContextExit(e) ==
    IF IsException(e)
    THEN NFSeCertificateError("Error configuring HTTP client")
    ELSE e

\* The except clauses around the with block of each operation.
Handlers(kind, e) ==
    IF kind \in {"query", "download"} /\ IsNFSeAPIError(e) THEN e
    ELSE IF IsTimeoutException(e)
    THEN NFSeAPIError("Timeout ao comunicar com SEFIN", "TIMEOUT", NoStatus)
    ELSE IF IsRequestError(e)
    THEN NFSeAPIError("Erro de comunicacao", "COMM_ERROR", NoStatus)
    ELSE e

\* The document's state after a call ended: submit's result decides Issued or
\* Rejected, a cancel reported as successful makes the invoice Cancelled.
Lifecycle(c, res, st) ==
    IF c.kind = "submit" /\ res.out = "return"
    THEN [st EXCEPT ![c.doc] = IF res.success THEN "Issued" ELSE "Rejected"]
    ELSE IF c.kind = "cancel" /\ res.out = "return" /\ res.success
    THEN [d \in Docs |-> IF KeyOf(d) = c.chave THEN "Cancelled" ELSE st[d]]
    ELSE st

Exit ==
    /\ At("exit")
    /\ LET thrown == IF entered THEN ContextExit(pending) ELSE pending
           final == Handlers(cur.kind, thrown)
       IN  /\ result' = final
           /\ nfse' = Lifecycle(cur, final, nfse)
    /\ tmpfiles' = IF entered THEN {} ELSE tmpfiles
    /\ pci' = 0
    /\ pending' = NoResult
    /\ UNCHANGED <<docvars, funvars>>
    /\ UNCHANGED <<pfx, dps, registry, caches, cur, entered, created, reqs,
                   req, resp>>

\* -------------------------------------------------------------------- spec
IdChoices(d) == {None, IdOf(d)}

Next ==
    \/ \E d \in Docs, v \in ValorChoices : \E id \in IdChoices(d) : CreateDPS(d, v, id)
    \/ \E d \in Docs : StartSubmit(d)
    \/ \E k \in KnownKeys : StartQuery(k)
    \/ \E k \in KnownKeys : StartDownload(k)
    \/ \E k \in KnownKeys, why \in Reasons : StartCancel(k, why)
    \/ BuildSign
    \/ LoadPkcs12
    \/ \E fault \in TmpFaults : WriteTempFiles(fault)
    \/ ClientSetupFails
    \/ \E outcome \in {"response", "timeout", "connerr"} : SendRequest(outcome)
    \/ ParseResponse
    \/ Exit

Spec == Init /\ [][Next]_vars

\* ------------------------------------------------------- the codec, in full
\* utils.compress_encode and utils.decode_decompress on text given as a
\* sequence of Unicode code points: UTF-8, GZip, Base64 and back.  Each
\* decoding stage raises on input that is not well formed (Bad...).
BadUtf8 == <<-3>>
BadGzip == <<-2>>
BadB64 == <<-1>>

\* One code point as one byte: what a Latin-1 encoder would do.
latin1_bytes(cp) == <<(cp % 256)>>

\* str.encode("utf-8") of one code point
utf8_bytes(cp) ==
    IF cp < 128 THEN <<cp>>
    ELSE IF cp < 2048 THEN <<192 + (cp \div 64), 128 + (cp % 64)>>
    ELSE IF cp < 65536
    THEN <<224 + (cp \div 4096), 128 + ((cp \div 64) % 64), 128 + (cp % 64)>>
    ELSE <<240 + (cp \div 262144), 128 + ((cp \div 4096) % 64),
           128 + ((cp \div 64) % 64), 128 + (cp % 64)>>

RECURSIVE utf8_encode(_)
utf8_encode(t) ==
    IF t = <<>> THEN <<>> ELSE utf8_bytes(Head(t)) \o utf8_encode(Tail(t))

IsCont(b) == b >= 128 /\ b < 192

\* bytes.decode("utf-8"), strict: lead byte, continuation bytes, no overlong
\* form, no surrogate, nothing above U+10FFFF.
RECURSIVE utf8_decode(_)
utf8_decode(b) ==
    IF b = <<>> THEN <<>>
    ELSE LET h == Head(b)
             n == IF h < 128 THEN 1 ELSE IF h >= 194 /\ h < 224 THEN 2
                  ELSE IF h >= 224 /\ h < 240 THEN 3
                  ELSE IF h >= 240 /\ h < 245 THEN 4 ELSE 0
             ok == n > 0 /\ Len(b) >= n /\ \A i \in 2 .. n : IsCont(b[i])
             cp == IF ~ok THEN -1
                   ELSE IF n = 1 THEN h
                   ELSE IF n = 2 THEN (h - 192) * 64 + (b[2] - 128)
                   ELSE IF n = 3
                   THEN (h - 224) * 4096 + (b[2] - 128) * 64 + (b[3] - 128)
                   ELSE (h - 240) * 262144 + (b[2] - 128) * 4096
                            + (b[3] - 128) * 64 + (b[4] - 128)
             valid == /\ ok
                      /\ (n = 3 => cp >= 2048 /\ ~(cp >= 55296 /\ cp < 57344))
                      /\ (n = 4 => cp >= 65536 /\ cp < 1114112)
             rest == IF valid THEN utf8_decode(SubSeq(b, n + 1, Len(b))) ELSE BadUtf8
         IN  IF ~valid \/ rest = BadUtf8 THEN BadUtf8 ELSE <<cp>> \o rest

\* A 32-bit little-endian field
LE32(n) == <<(n % 256), ((n \div 256) % 256), ((n \div 65536) % 256), ((n \div 16777216) % 256)>>

RECURSIVE ByteSum(_)
ByteSum(b) == IF b = <<>> THEN 0 ELSE Head(b) + ByteSum(Tail(b))

\* The member's check value (CRC-32 in the library; a 16-bit sum here).
Checksum(b) == (ByteSum(b) % 65536)

GzipHeader == <<31, 139, 8, 0, 0, 0, 0, 0, 2, 255>>

\* gzip.compress: header, the data as one stored DEFLATE block (final, type
\* 00, LEN and its complement), check value and size.
gzip_compress(b) ==
    GzipHeader
    \o <<1, (Len(b) % 256), (Len(b) \div 256), 255 - (Len(b) % 256), 255 - (Len(b) \div 256)>>
    \o b \o LE32(Checksum(b)) \o LE32(Len(b))

\* gzip.decompress: the header, the block, then check value and size.
gzip_decompress(z) ==
    IF Len(z) < 23 \/ SubSeq(z, 1, 3) # <<31, 139, 8>> \/ z[11] # 1 THEN BadGzip
    ELSE LET n == z[12] + 256 * z[13]
             data == SubSeq(z, 16, 15 + n)
         IN  IF z[14] # 255 - z[12] \/ z[15] # 255 - z[13] \/ Len(z) # 23 + n
             THEN BadGzip
             ELSE IF SubSeq(z, 16 + n, 19 + n) # LE32(Checksum(data))
                     \/ SubSeq(z, 20 + n, 23 + n) # LE32(n)
             THEN BadGzip
             ELSE data

\* Base64 text as a sequence of alphabet positions 0..63, B64Pad for '='.
B64Pad == 64

RECURSIVE b64encode(_)
b64encode(b) ==
    IF b = <<>> THEN <<>>
    ELSE IF Len(b) = 1
    THEN <<(b[1] \div 4), (b[1] % 4) * 16, B64Pad, B64Pad>>
    ELSE IF Len(b) = 2
    THEN <<(b[1] \div 4), (b[1] % 4) * 16 + (b[2] \div 16), (b[2] % 16) * 4, B64Pad>>
    ELSE <<(b[1] \div 4), (b[1] % 4) * 16 + (b[2] \div 16),
           (b[2] % 16) * 4 + (b[3] \div 64), (b[3] % 64)>>
         \o b64encode(SubSeq(b, 4, Len(b)))

\* base64.b64decode: groups of four, padding only at the end.
RECURSIVE b64decode(_)
b64decode(t) ==
    IF t = <<>> THEN <<>>
    ELSE IF Len(t) < 4 \/ t[1] = B64Pad \/ t[2] = B64Pad THEN BadB64
    ELSE IF t[3] = B64Pad
    THEN (IF t[4] = B64Pad /\ Len(t) = 4
          THEN <<t[1] * 4 + (t[2] \div 16)>> ELSE BadB64)
    ELSE IF t[4] = B64Pad
    THEN (IF Len(t) = 4
          THEN <<t[1] * 4 + (t[2] \div 16), (t[2] % 16) * 16 + (t[3] \div 4)>>
          ELSE BadB64)
    ELSE LET rest == b64decode(SubSeq(t, 5, Len(t)))
         IN  IF rest = BadB64 THEN BadB64
             ELSE <<t[1] * 4 + (t[2] \div 16), (t[2] % 16) * 16 + (t[3] \div 4),
                    (t[3] % 4) * 64 + t[4]>> \o rest

\* utils.compress_encode
utils_compress_encode(t) == b64encode(gzip_compress(utf8_encode(t)))

\* utils.decode_decompress
utils_decode_decompress(e) ==
    LET z == b64decode(e)
        b == IF z = BadB64 THEN BadGzip ELSE gzip_decompress(z)
    IN  IF z = BadB64 THEN BadB64
        ELSE IF b = BadGzip THEN BadGzip
        ELSE utf8_decode(b)

\* ------------------------------------------------------ the document bench
\* The caller builds a DPS by hand, serializes it and signs it, as the
\* builder's and signer's tests do: DPS(...), build_dps, sign.
IdInputs ==
    {None, IdOf(1), IdOf(2),
     "DPS12345",
     "350950221122233300018100900000000000000001",
     "DPS3509502211222333000181009000000000000000X1",
     IdOf(1) \o "\n"}

\* Emission date and amount (centavos) of two invoices of competency 2026-01.
Invoices ==
    {[data_emissao |-> [Y |-> 2026, M |-> 1, D |-> 15, h |-> 10, m |-> 30, s |-> 0],
      valor_servicos |-> 50000],
     [data_emissao |-> [Y |-> 2026, M |-> 2, D |-> 3, h |-> 9, m |-> 5, s |-> 7],
      valor_servicos |-> 100050]}

TaxIds == {[cpf |-> "52998224725", cnpj |-> None],
           [cpf |-> None, cnpj |-> "11222333000181"],
           [cpf |-> "52998224725", cnpj |-> "11222333000181"],
           [cpf |-> None, cnpj |-> None],
           [cpf |-> "12345678901", cnpj |-> None],
           [cpf |-> None, cnpj |-> "11222333000199"]}

Rates == {NoRate, 0, 1550}

\* Series given to DPS(serie=...): the tests' "900" and "NF", and digit
\* strings of 1 to 10 characters with and without leading zeros.
Series ==
    {"900", "NF", "", "1", "00001", "12345", "012345", "123456", "000012345",
     "0000123456", "9A", "900\n"}

\* The optional fields, all given or all left out.
WithOptionals(o, given) ==
    IF given THEN o
    ELSE [o EXCEPT !.prest_telefone = None, !.prest_email = None,
                   !.toma_endereco = FALSE, !.toma_complemento = None,
                   !.codigo_tributacao_municipal = None, !.codigo_nbs = None]

DPSInputs ==
    {WithOptionals([SampleDPS EXCEPT !.id_dps = id, !.optante_simples = sn,
                                     !.aliquota_simples = rate,
                                     !.data_emissao = inv.data_emissao,
                                     !.valor_servicos = inv.valor_servicos,
                                     !.toma_cpf = tax.cpf, !.toma_cnpj = tax.cnpj],
                   given) :
        id \in IdInputs, sn \in BOOLEAN, rate \in Rates, inv \in Invoices,
        tax \in TaxIds, given \in BOOLEAN}
    \cup {[SampleDPS EXCEPT !.id_dps = IdOf(1), !.serie = sr] : sr \in Series}

Returned == [NoResult EXCEPT !.out = "return"]

\* DPS(...): pydantic runs the validators; the object exists or
\* ValidationError is raised.
NewDPS(o) ==
    /\ dres.out = "none"
    /\ arg' = o
    /\ IF ValidationFailure(o) = ""
       THEN /\ doc' = o
            /\ dres' = Returned
       ELSE /\ doc' = NoDPS
            /\ dres' = Raise("ValidationError", ValidationFailure(o), None, NoStatus)
    /\ xml' = NoXml
    /\ sxml' = NoXml
    /\ UNCHANGED <<world, caches, call, ret>>

\* XMLBuilder(ambiente).build_dps(doc)
BuildDPS(amb) ==
    /\ doc.built
    /\ xml = NoXml
    /\ dres.out = "return"
    /\ LET b == build_dps(amb, doc)
       IN  /\ xml' = b.xml
           /\ dres' = IF b.err.out = "raise" THEN b.err ELSE Returned
    /\ sxml' = NoXml
    /\ UNCHANGED <<world, caches, call, doc, funvars>>

\* Documents that did not come from build_dps: one without infDPS, one whose
\* infDPS has no Id.
ForeignXml ==
    {Elem("DPS", "", <<Leaf("outro", "x")>>),
     Elem("DPS", "", <<Elem("infDPS", "", <<Leaf("serie", "900")>>)>>)}

\* XMLSignerService.sign(x): _load_certificate, then the signature.
SignXml(x) ==
    /\ x # NoXml
    /\ sxml = NoXml
    /\ LET ld == SignerLoad(pfx, skey, scert)
           sg == sign(x, ld.key, ld.cert)
       IN  /\ skey' = ld.key
           /\ scert' = ld.cert
           /\ reads' = IF ld.read THEN [reads EXCEPT !.signer = Bump(@)] ELSE reads
           /\ IF ld.err.out = "raise"
              THEN sxml' = NoXml /\ dres' = ld.err
              ELSE IF sg.err.out = "raise"
              THEN sxml' = NoXml /\ dres' = sg.err
              ELSE sxml' = sg.xml /\ dres' = Returned
    /\ ret' = x
    /\ UNCHANGED <<world, ckey, ccert, call, doc, xml, arg>>

\* Field assignments made on a constructed document before it is serialized:
\* those of the builder's tests (serie "NF", regime_tributario "unknown") and
\* one more for each validated field.
Assignments ==
    {<<"serie", "NF">>, <<"numero", 0>>, <<"regime_tributario", "unknown">>,
     <<"competencia", "2026-13">>, <<"id_dps", "DPS12345">>}

\* dps.<field> = value.  DPS declares no model_config, so pydantic stores the
\* value without running the field's validator.  One assignment is followed
\* for each document.
Assign(field, value) ==
    /\ doc.built
    /\ doc = arg
    /\ xml = NoXml
    /\ dres = Returned
    /\ doc' = [doc EXCEPT ![field] = value]
    /\ UNCHANGED <<world, caches, call, xml, sxml, dres, funvars>>

DocNext ==
    \/ \E o \in DPSInputs : NewDPS(o)
    \/ \E a \in Assignments : Assign(a[1], a[2])
    \/ \E amb \in {"homologacao", "producao"} : BuildDPS(amb)
    \/ \E x \in {xml} \cup ForeignXml : SignXml(x)

DocSpec == Init /\ [][DocNext]_vars


\* ================================================================== claims
Done(kind) == pci = 0 /\ cur.kind = kind /\ result.out # "none"

Answered == resp.status # 0

LegalMove(a, b) ==
    \/ a = b
    \/ a = "Draft" /\ b = "Submitted"
    \/ a = "Submitted" /\ b \in {"Issued", "Rejected"}
    \/ a = "Issued" /\ b = "Cancelled"

C2_NotFoundClassified ==
    (pci = 0 /\ cur.kind \in {"query", "cancel"} /\ resp.status = 404)
        => /\ IsNFSeAPIError(result)
           /\ result.status_code = 404

\* C3: query_nfse raises NFSeAPIError, carrying the HTTP status and the body's
\* codigo/mensagem when present, whenever the service answers with a status
\* other than 200, and returns the result fields when it answers 200.
C3_QueryErrors ==
    /\ (Done("query") /\ Answered /\ resp.status # 200)
          => /\ IsNFSeAPIError(result)
             /\ result.status_code = resp.status
             /\ (resp.codigo # None => result.code = resp.codigo)
             /\ (resp.mensagem # None => result.message = resp.mensagem)
    /\ (Done("query") /\ resp.status = 200)
          => /\ result.out = "return"
             /\ result.chave_acesso = cur.chave
             /\ result.nfse_number # None
             /\ result.status \in {"emitida", "cancelada"}

\* C4: in every operation a round trip that times out surfaces as an
\* NFSeAPIError with code TIMEOUT, and any other connection failure as one
\* with code COMM_ERROR; neither is a certificate error or a success.
C4_TimeoutClassified ==
    /\ (pci = 0 /\ req.outcome = "timeout")
          => (IsNFSeAPIError(result) /\ result.code = "TIMEOUT")
    /\ (pci = 0 /\ req.outcome = "connerr")
          => (IsNFSeAPIError(result) /\ result.code = "COMM_ERROR")

\* C5: once a call has returned or raised, no temporary PEM file it created
\* is still on disk.
C5_NoTempFileLeft == pci = 0 => tmpfiles = {}

\* C6: when validation of the document, its serialization or its signing
\* fails, no request has been sent and no temporary credential file has been
\* created, and the call goes straight to its exit.
C6_FailFast ==
    [][/\ (At("build_sign") /\ pending'.out = "raise")
            => (reqs' = 0 /\ created' = {} /\ tmpfiles' = {} /\ pci' = ExitIndex)
       /\ (cur'.kind = "create" /\ result'.out = "raise")
            => (reqs' = 0 /\ created' = {} /\ pci' = 0)
       /\ (At("exit") /\ cur.kind = "submit" /\ reqs = 0 /\ created = {})
            => (result'.out = "raise" /\ reqs' = 0 /\ created' = {})]_vars

C6_Witness ==
    /\ Done("submit")
    /\ result.exc = "TypeError"
    /\ reqs = 0
    /\ created = {}

\* C7: every operation sends at most one HTTP request per call; after a
\* timeout or a connection failure the call ends with that one request sent.
C7_AtMostOneRequest ==
    /\ reqs <= 1
    /\ (req.outcome \in {"timeout", "connerr"} => (reqs = 1 /\ ~At("request")))

C7_Witness ==
    /\ pci = 0
    /\ req.outcome = "timeout"
    /\ reqs = 1
    /\ result.out = "raise"

\* C8: whenever submit_dps reports success the response was a 200, the result
\* carries a 50-character access key and an invoice number, and it carries
\* the invoice XML when the response held it under nfse or nfseXmlGZipB64.
C8_SubmitSuccess ==
    (Done("submit") /\ result.out = "return" /\ result.success)
        => /\ resp.status = 200
           /\ result.chave_acesso # None
           /\ Len(result.chave_acesso) = 50
           /\ result.nfse_number # None
           /\ (resp.nfse # None \/ resp.nfseXmlGZipB64 # None)
                 => (result.xml_nfse # None \/ result.nfse_xml_gzip_b64 # None)

\* A body is structured when it is a JSON object with codigo and mensagem.
Structured(r) == r.json = "obj" /\ r.codigo # None /\ r.mensagem # None

C10_Cancel ==
    (pci = 0 /\ cur.kind = "cancel")
        => /\ reqs <= 1
           /\ (reqs = 1 => /\ req.method = "POST"
                           /\ req.endpoint = "/eventos"
                           /\ req.tpEvento = "110111"
                           /\ req.chNFSe = cur.chave
                           /\ req.xMotivo = cur.reason)
           /\ (result.out = "return" /\ result.success)
                 => /\ resp.status \in {200, 201}
                    /\ result.protocolo = resp.protocolo
                    /\ result.protocolo # None
           /\ (Answered /\ resp.status \notin {200, 201})
                 => /\ result.out = "return"
                    /\ ~result.success
                    /\ result.error_code # None
                    /\ result.error_message # None

C10_Witness ==
    /\ Done("cancel")
    /\ resp.status = 201
    /\ result.success
    /\ result.protocolo # None
    /\ req.tpEvento = "110111"

\* ronald/download_nfse_pdfs.py: "pdf" in content_type or content[:4] == b"%PDF"
IsPdf(r) ==
    \/ r.ctype \in {"application/pdf"}
    \/ (Len(r.text) >= 4 /\ SubSeq(r.text, 1, 4) = "%PDF")

\* C11: download_danfse returns content only when the response is a 200 whose
\* content-type is PDF or whose first four bytes are %PDF; every other
\* response ends the call with an error and no bytes.
C11_OnlyPdfReturned ==
    (Done("download") /\ Answered)
        => /\ (result.out = "return" => (resp.status = 200 /\ IsPdf(resp)))
           /\ (~(resp.status = 200 /\ IsPdf(resp))
                 => (result.out = "raise" /\ result.content = None))

\* C12 as stated: over any sequence of operations of one client instance,
\* its signing steps included, the PKCS12 file is read and decrypted at most
\* once.
C12_AsStated == reads.client + reads.signer <= 1

\* C12 amended: the client and its signer each keep their own cache.  Once a
\* holder's cached private key is set, no later load by that holder reads the
\* file again, and the holder's cached key and certificate never change; so
\* the file is decrypted at most once more by the other holder, never again
\* by this one.
C12_Amended ==
    [][/\ (ckey # None) => (ckey' = ckey /\ ccert' = ccert
                             /\ reads'.client = reads.client)
       /\ (skey # None) => (skey' = skey /\ scert' = scert
                             /\ reads'.signer = reads.signer)]_vars

\* A query ran its load step after a submit had loaded both caches.
C12_Witness ==
    /\ Done("query")
    /\ reads = [client |-> 1, signer |-> 1]
    /\ ckey = "key" /\ ccert = "cert" /\ skey = "key" /\ scert = "cert"
    /\ \E d \in Docs : nfse[d] = "Issued"

\* --------------------------------------------------------- the codec bench
\* A text is encoded and the result decoded, as TestCompression does.
\* '<', 'a', 'e' with acute accent, the euro sign, an emoji: one to four bytes.
CodePoints == {60, 97, 233, 8364, 128512}

Texts == UNION {[1 .. n -> CodePoints] : n \in 0 .. MaxText}

CodecInit ==
    /\ pfx = "ok"
    /\ Fresh
    /\ arg \in Texts
    /\ ret = <<>>

\* encoded = compress_encode(data)
Encode ==
    /\ Len(ret) = 0
    /\ ret' = <<utils_compress_encode(arg)>>
    /\ UNCHANGED <<world, caches, call, docvars, arg>>

\* decoded = decode_decompress(encoded)
Decode ==
    /\ Len(ret) = 1
    /\ ret' = Append(ret, utils_decode_decompress(ret[1]))
    /\ UNCHANGED <<world, caches, call, docvars, arg>>

CodecNext == Encode \/ Decode

CodecSpec == CodecInit /\ [][CodecNext]_vars

\* ------------------------------------------------- claims on the document
\* The infDPS element of a document of build_dps, and its children's tags.
InfDPS(x) == x.kids[1]

Tags(e) == [i \in 1 .. Len(e.kids) |-> e.kids[i].tag]

\* 'DPS' followed by 42 digits, 45 characters in all.
IsDpsId(v) == Len(v) = 45 /\ SubSeq(v, 1, 3) = "DPS" /\ IsDigits(v, 4)

\* C13: build_dps on a document without a preset identifier does not fail: it
\* generates the identifier, and the Id it emits on infDPS is 'DPS' followed
\* by 42 digits.
C13_IdGenerated ==
    /\ (doc.built /\ doc.id_dps = None) => dres.exc # "TypeError"
    /\ (xml # NoXml /\ doc.id_dps = None) => IsDpsId(InfDPS(xml).id)

\* C14: a document constructed with an identifier has one that is 'DPS'
\* followed by exactly 42 digits (45 characters); every other identifier is
\* rejected with a validation error before anything is serialized or signed;
\* and build_dps emits the accepted identifier unchanged as the infDPS Id.
C14_IdAccepted ==
    /\ (doc.built /\ doc.id_dps # None) => IsDpsId(doc.id_dps)
    /\ (dres.exc = "ValidationError") => (xml = NoXml /\ sxml = NoXml)
    /\ (xml # NoXml) => InfDPS(xml).id = doc.id_dps

\* C15: decoding what compress_encode produced gives the text back, for every
\* text: empty, ASCII, accented and other multi-byte characters.
C15_RoundTrip == Len(ret) = 2 => ret[2] = arg

C15_Witness ==
    /\ Len(ret) = 2
    /\ arg = <<233, 8364, 128512>>
    /\ ret[2] = <<233, 8364, 128512>>
    /\ ret[1] # arg

\* The Signature children of an element.
Signatures(e) == SelectSeq(e.kids, LAMBDA k : k.tag = "Signature")

\* C16: a signed document is the document that was signed plus exactly one
\* Signature element: unprefixed, in the XML-DSig namespace, the last child of
\* the DPS root and so a sibling of infDPS, with the reference URI '#' followed
\* by the Id of infDPS; infDPS itself is as it was.
C16_Signature ==
    (sxml # NoXml)
        => /\ sxml.tag = "DPS"
           /\ Len(Signatures(sxml)) = 1
           /\ sxml.kids = ret.kids \o Signatures(sxml)
           /\ Signatures(ret) = <<>>
           /\ Signatures(InfDPS(sxml)) = <<>>
           /\ InfDPS(sxml) = InfDPS(ret)
           /\ Signatures(sxml)[1].prefix = ""
           /\ Signatures(sxml)[1].ns = DS_NS
           /\ Signatures(sxml)[1].kids[1].kids[1].uri = "#" \o InfDPS(ret).id

C16_Witness ==
    /\ sxml # NoXml
    /\ InfDPS(ret).id = IdOf(1)
    /\ Signatures(sxml)[1].kids[1].kids[1].uri = "#" \o IdOf(1)
    /\ Len(sxml.kids) = 2

\* The error kind (exception class) the signer gives each failure mode: the
\* target element missing, the credentials not loaded, the signing primitive
\* failing.
TargetKind == sign(Elem("DPS", "", <<Leaf("outro", "x")>>), "key", "cert").err.exc

CredentialKind == SignerLoad("missing", None, None).err.exc

CryptoKind ==
    sign(Elem("DPS", "", <<[Leaf("infDPS", "") EXCEPT !.id = IdOf(1)]>>),
         None, None).err.exc

\* C17: when signing fails the error is of one of three kinds, one per failure
\* mode, and the three kinds differ, so that a caller can tell the modes apart.
C17_DistinctKinds ==
    (ret # <<>> /\ dres.out = "raise")
        => /\ dres.exc \in {TargetKind, CredentialKind, CryptoKind}
           /\ TargetKind # CredentialKind
           /\ TargetKind # CryptoKind
           /\ CredentialKind # CryptoKind

\* The children of e with a given tag, and the first of them.
Children(e, tag) == SelectSeq(e.kids, LAMBDA k : k.tag = tag)

Child(e, tag) == Children(e, tag)[1]

\* C18: the children of infDPS are, in this order, tpAmb, dhEmi, verAplic,
\* serie, nDPS, dCompet, tpEmit, cLocEmi, prest, toma, serv, valores, whatever
\* optional fields the document has.
C18_ElementOrder ==
    (xml # NoXml)
        => Tags(InfDPS(xml)) =
              <<"tpAmb", "dhEmi", "verAplic", "serie", "nDPS", "dCompet",
                "tpEmit", "cLocEmi", "prest", "toma", "serv", "valores">>

C18_Witness ==
    /\ xml # NoXml
    /\ doc.prest_telefone = None
    /\ ~doc.toma_endereco
    /\ Tags(InfDPS(xml))[9] = "prest"
    /\ Tags(InfDPS(xml))[12] = "valores"

\* The totTrib and regTrib elements of a document.
TotTrib(x) == Child(Child(Child(InfDPS(x), "valores"), "trib"), "totTrib")

RegTrib(x) == Child(Child(InfDPS(x), "prest"), "regTrib")

\* C19: totTrib holds exactly one total-tax shape: pTotTribSN alone when the
\* document is flagged optante_simples, otherwise pTotTrib alone with its
\* federal, state and municipal parts all "0"; regApTribSN is present exactly
\* when pTotTribSN is.
C19_OneTaxShape ==
    (xml # NoXml)
        => /\ Tags(TotTrib(xml)) =
                 (IF doc.optante_simples THEN <<"pTotTribSN">> ELSE <<"pTotTrib">>)
           /\ (~doc.optante_simples)
                 => /\ Tags(Child(TotTrib(xml), "pTotTrib")) =
                          <<"pTotTribFed", "pTotTribEst", "pTotTribMun">>
                    /\ \A i \in 1 .. 3 :
                          Child(TotTrib(xml), "pTotTrib").kids[i].text = "0"
           /\ (Children(RegTrib(xml), "regApTribSN") # <<>>)
                 <=> (Children(TotTrib(xml), "pTotTribSN") # <<>>)
           /\ Len(Children(RegTrib(xml), "regApTribSN")) <= 1

C19_Witness ==
    /\ xml # NoXml
    /\ ~doc.optante_simples
    /\ Tags(TotTrib(xml)) = <<"pTotTrib">>
    /\ Children(RegTrib(xml), "regApTribSN") = <<>>

TomaIds(x) ==
    Children(Child(InfDPS(x), "toma"), "CPF")
        \o Children(Child(InfDPS(x), "toma"), "CNPJ")

\* C21: a recipient carries exactly one tax ID: construction is rejected when
\* neither CPF nor CNPJ is given and also when both are given, so a constructed
\* recipient has exactly one of them, and the recipient block of the serialized
\* document holds exactly that one ID element.
C21_ExactlyOneTaxId ==
    /\ (arg # <<>> /\ (arg.toma_cpf = None) = (arg.toma_cnpj = None))
          => (~doc.built /\ dres.exc = "ValidationError")
    /\ doc.built => (doc.toma_cpf = None) # (doc.toma_cnpj = None)
    /\ (xml # NoXml)
          => /\ Len(TomaIds(xml)) = 1
             /\ TomaIds(xml)[1].tag = (IF doc.toma_cpf # None THEN "CPF" ELSE "CNPJ")
             /\ TomaIds(xml)[1].text =
                   (IF doc.toma_cpf # None THEN doc.toma_cpf ELSE doc.toma_cnpj)

\* 1 to 5 decimal digits and nothing else.
Is1to5Digits(v) == Len(v) \in 1 .. 5 /\ IsDigits(v, 1)

\* C22: a document's series is accepted if and only if it consists of 1 to 5
\* decimal digits: for the tests' document with any series in place of "900",
\* construction succeeds exactly when the series is 1 to 5 digits, so that a
\* constructed document's series fits the 5-digit field of the identifier.
C22_SerieAccepted ==
    (arg # <<>> /\ [arg EXCEPT !.serie = "900"] = [SampleDPS EXCEPT !.id_dps = IdOf(1)])
        => (doc.built <=> Is1to5Digits(arg.serie))

\* ------------------------------------------- claims on the calls, continued
\* The status is a success status of the operation.
SuccessStatus(kind, s) == IF kind = "cancel" THEN s \in {200, 201} ELSE s = 200

\* C23: for every operation, a non-success response whose body is not a JSON
\* object (not JSON at all, or a JSON list) surfaces an API error that carries
\* the HTTP status and, when the body is not empty, its raw text: a returned
\* failure with the status as code and the text as message, or a raised
\* NFSeAPIError with the status; no other kind of error leaves the call.
C23_NonJsonErrorBody ==
    \A kind \in {"submit", "query", "cancel", "download"} :
        (Done(kind) /\ Answered /\ ~SuccessStatus(kind, resp.status)
           /\ resp.json # "obj")
            => \/ /\ result.out = "return"
                  /\ ~result.success
                  /\ result.error_code = StatusStr(resp.status)
                  /\ resp.text # "" => result.error_message = resp.text
               \/ /\ IsNFSeAPIError(result)
                  /\ result.status_code = resp.status

\* ----------------------------------------------------- municipal lookups
\* NFSeClient.query_parametros_municipais and query_servico_municipal against
\* the parametrizacao service, with the transport of their tests: one GET,
\* then the reply is read.  Bodies are the parsed JSON: a list of service
\* entries, one object, or nothing.
NoBody == [json |-> "none", items |-> <<>>, codigo |-> None, mensagem |-> None,
           nomeMunicipio |-> None, uf |-> None, cTribNac |-> None,
           descricao |-> None, aliquota |-> None]

\* One entry of a service list; rates are in hundredths of a percent.
Item(c, d, a) == [cTribNac |-> c, descricao |-> d, aliquota |-> a]

ListBody(items) == [NoBody EXCEPT !.json = "list", !.items = items]

ErrorBody(c, m) == [NoBody EXCEPT !.json = "obj", !.codigo = c, !.mensagem = m]

ParamReplies ==
    {[status |-> 200, body |-> ListBody(<<>>)],
     [status |-> 200, body |-> ListBody(<<Item("040301", "Medicina", 500)>>)],
     [status |-> 200, body |-> ListBody(<<Item("040301", "Medicina", 500),
                                         Item("040302", "Analises", 300)>>)],
     [status |-> 200, body |-> [NoBody EXCEPT !.json = "obj",
                                              !.nomeMunicipio = "Manaus",
                                              !.uf = "AM"]],
     [status |-> 200, body |-> [NoBody EXCEPT !.json = "obj",
                                              !.cTribNac = "040301",
                                              !.descricao = "Medicina",
                                              !.aliquota = 250]],
     [status |-> 200, body |-> [NoBody EXCEPT !.json = "obj"]],
     [status |-> 404, body |-> NoBody],
     [status |-> 404, body |-> ErrorBody("E404", "Nao encontrado")],
     [status |-> 500, body |-> ErrorBody("ERRO500", "Erro interno do servidor")],
     [status |-> 422, body |-> ErrorBody("E0001", "Codigo de municipio invalido")]}

Municipios == {1302603, 9999999, 1234}

ServiceCodes == {"040301", "04.03.01", "999999"}

\* ServicoMunicipal(codigo_servico, descricao, aliquota, aderido)
ServicoMunicipal(c, d, a, ad) ==
    [out |-> "return", codigo_servico |-> c, descricao |-> d, aliquota |-> a,
     aderido |-> ad]

\* ParametrosMunicipais(codigo_municipio, nome_municipio, uf, aderido, servicos)
ParametrosMunicipais(cod, nome, uf, ad, servicos) ==
    [out |-> "return", codigo_municipio |-> cod, nome_municipio |-> nome,
     uf |-> uf, aderido |-> ad, servicos |-> servicos]

\* The service entries of a list body as ServicoMunicipal objects.
Servicos(items) ==
    [i \in 1 .. Len(items) |->
        ServicoMunicipal(items[i].cTribNac, items[i].descricao,
                         items[i].aliquota, TRUE)]

\* A lookup that treats 404 like every other failure status.
query_parametros_raising_404(cod, r) ==
    IF r.status # 200
    THEN NFSeAPIError(Or(r.body.mensagem, "Erro ao consultar parametros"),
                      r.body.codigo, r.status)
    ELSE ParametrosMunicipais(cod, r.body.nomeMunicipio, r.body.uf, TRUE,
                              Servicos(r.body.items))

\* query_parametros_municipais(codigo_municipio) once the reply r is in
query_parametros_municipais(cod, r) ==
    IF r.status = 404
    THEN ParametrosMunicipais(cod, None, None, FALSE, <<>>)
    ELSE IF r.status # 200
    THEN NFSeAPIError(Or(r.body.mensagem, "Erro ao consultar parametros"),
                      r.body.codigo, r.status)
    ELSE ParametrosMunicipais(cod, r.body.nomeMunicipio, r.body.uf, TRUE,
                              Servicos(r.body.items))

\* query_servico_municipal(codigo_municipio, codigo_servico) once the reply r
\* is in; the service code is sent and reported without its dots.
query_servico_municipal(cod, serv, r) ==
    IF r.status = 404
    THEN ServicoMunicipal(RemoveDots(serv), None, None, FALSE)
    ELSE IF r.status # 200
    THEN NFSeAPIError(Or(r.body.mensagem, "Erro ao consultar servico"),
                      r.body.codigo, r.status)
    ELSE IF r.body.json = "list" /\ r.body.items # <<>>
    THEN ServicoMunicipal(RemoveDots(serv), r.body.items[1].descricao,
                          r.body.items[1].aliquota, TRUE)
    ELSE ServicoMunicipal(RemoveDots(serv), r.body.descricao, r.body.aliquota, TRUE)

\* client.query_parametros_municipais(cod), answered with r
QueryParametrosMunicipais(cod, r) ==
    /\ arg' = [op |-> "query_parametros_municipais", codigo_municipio |-> cod,
               codigo_servico |-> None, reply |-> r]
    /\ ret' = query_parametros_municipais(cod, r)
    /\ UNCHANGED <<world, caches, call, docvars>>

\* client.query_servico_municipal(cod, serv), answered with r
QueryServicoMunicipal(cod, serv, r) ==
    /\ arg' = [op |-> "query_servico_municipal", codigo_municipio |-> cod,
               codigo_servico |-> serv, reply |-> r]
    /\ ret' = query_servico_municipal(cod, serv, r)
    /\ UNCHANGED <<world, caches, call, docvars>>

ParamInit == pfx = "ok" /\ Fresh /\ arg = <<>> /\ ret = <<>>

ParamNext ==
    \/ \E cod \in Municipios, r \in ParamReplies : QueryParametrosMunicipais(cod, r)
    \/ \E cod \in Municipios, serv \in ServiceCodes, r \in ParamReplies :
          QueryServicoMunicipal(cod, serv, r)

ParamSpec == ParamInit /\ [][ParamNext]_vars

CnpjInputs ==
    {base \o Digit(a) \o Digit(b) :
        base \in {"112223330001", "427139240001"}, a \in 0 .. 9, b \in 0 .. 9}
    \cup {Pad("", 13) \o "0", "11111111111111", "22222222222222", "99999999999999"}
    \cup {"11.222.333/0001-81", "1122233300018", "112223330001811",
          "11222333000181\n", "11222333 000181", "1122233300018A"}

NoVerdicts == [model |-> <<>>, utils |-> <<>>]

CnpjInit == pfx = "ok" /\ Fresh /\ arg \in CnpjInputs /\ ret = NoVerdicts

\* Prestador(cnpj=arg, ...): accepted, or ValidationError
ModelValidator ==
    /\ ret.model = <<>>
    /\ ret' = [ret EXCEPT !.model = <<validate_cnpj(arg)>>]
    /\ UNCHANGED <<world, caches, call, docvars, arg>>

\* utils.validate_cnpj(arg)
UtilsValidator ==
    /\ ret.utils = <<>>
    /\ ret' = [ret EXCEPT !.utils = <<utils_validate_cnpj(arg)>>]
    /\ UNCHANGED <<world, caches, call, docvars, arg>>

CnpjNext == ModelValidator \/ UtilsValidator

CnpjSpec == CnpjInit /\ [][CnpjNext]_vars

\* The two mod-11 check digits of a 14-digit string are correct: the 13th is
\* the digit of the first 12, the 14th the digit of the first 13.
CheckDigitsCorrect(v) ==
    \E a, b \in 0 .. 9 :
        /\ a = calc_digit(SubSeq(v, 1, 12), Tail(CnpjWeights))
        /\ b = calc_digit(SubSeq(v, 1, 12) \o Digit(a), CnpjWeights)
        /\ CharAt(v, 13) = Digit(a)
        /\ CharAt(v, 14) = Digit(b)

\* C25: on every 14-digit string the model validator and utils.validate_cnpj
\* give the same verdict, accepting exactly the strings that are not one
\* repeated digit and whose two mod-11 check digits are correct;
\* "11222333000181" is accepted, "11222333000199" and "11111111111111" are
\* rejected.
C25_CnpjAgree ==
    (Len(arg) = 14 /\ IsDigits(arg, 1) /\ ret.model # <<>> /\ ret.utils # <<>>)
        => /\ ret.model = ret.utils
           /\ ret.model[1] <=> (~Repeated(arg) /\ CheckDigitsCorrect(arg))
           /\ (arg = "11222333000181") => ret.model[1]
           /\ (arg \in {"11222333000199", "11111111111111"}) => ~ret.model[1]

C25_Witness ==
    /\ arg = "11222333000181"
    /\ ret.model = <<TRUE>>
    /\ ret.utils = <<TRUE>>

\* C26: in a document under the simplified regime the emitted pTotTribSN is
\* the service's aliquota_simples with two decimals for every value provided,
\* 0 included ("0.00", "15.50"); the default "18.83" is emitted only when no
\* rate was provided.
C26_RateEmitted ==
    (xml # NoXml /\ doc.optante_simples)
        => Child(TotTrib(xml), "pTotTribSN").text =
              (IF doc.aliquota_simples = NoRate THEN "18.83"
               ELSE format_decimal(doc.aliquota_simples))

\* C27: credential cache atomicity, for the client's cache and the signer's:
\* a load that failed leaves the cache empty and a load that returned leaves
\* both the private key and the certificate in it, so at every moment the
\* cache holds both or neither; and no signature is attempted with a null
\* key or certificate (the signing primitive fails with "Erro ao assinar XML"
\* exactly when it is handed one).
C27_CacheAtomic ==
    /\ (ckey = None) <=> (ccert = None)
    /\ (skey = None) <=> (scert = None)
    /\ result.message # "Erro ao assinar XML"
    /\ dres.message # "Erro ao assinar XML"

\* The text of a child of infDPS.
Field(x, tag) == Child(InfDPS(x), tag).text

\* C28: in every document build_dps produces, the fields encoded in the Id of
\* infDPS (characters 4-10 the location code, 12-25 the provider ID, 26-30 the
\* series padded with zeros, 31-45 the number padded with zeros) equal its
\* cLocEmi, prest/CNPJ, serie and nDPS elements, the caller's own identifier
\* included.
C28_IdMatchesFields ==
    (xml # NoXml)
        => /\ SubSeq(InfDPS(xml).id, 4, 10) = Field(xml, "cLocEmi")
           /\ SubSeq(InfDPS(xml).id, 12, 25) =
                 Child(Child(InfDPS(xml), "prest"), "CNPJ").text
           /\ SubSeq(InfDPS(xml).id, 26, 30) = Pad(Field(xml, "serie"), 5)
           /\ SubSeq(InfDPS(xml).id, 31, 45) = Pad(Field(xml, "nDPS"), 15)

\* C29: every document that reaches serialization satisfies all the field
\* invariants of the model (numeric series, positive number, known tax regime,
\* competency format, identifier pattern), whatever was assigned to its fields
\* after construction: an invalid assignment is rejected, or the document is
\* not serialized.
C29_SerializedIsValid == (xml # NoXml) => ValidationFailure(doc) = ""

\* ------------------------------------------------------ the sequence counter
\* The CLI scripts take the next DPS number from a file: get_next_dps_number
\* (ronald/issue_nfse_from_csv.py, file .dps_counter, first number 300) and
\* get_next_numero (util/issue_nfse.py, option proximo_numero of the config
\* file, first number 1).  Both read the stored number, then write it plus
\* one and hand out what they read; nothing locks the file.  Two processes
\* run the same script on the same file.
MaxCalls == 3

Procs == {1, 2}

Tools == {"issue_nfse_from_csv", "issue_nfse"}

\* counter = 300 when the file does not exist; fallback=1
FirstNumber(tool) == IF tool = "issue_nfse_from_csv" THEN 300 ELSE 1

\* The bench state: the file (<<>> while it does not exist), each process's
\* position and the number it read, whether some read happened between
\* another process's read and write, and the numbers handed out so far.
NoCounter ==
    [file |-> <<>>, pc |-> [p \in Procs |-> "idle"],
     counter |-> [p \in Procs |-> 0], overlap |-> FALSE]

CounterInit ==
    /\ pfx = "ok"
    /\ Fresh
    /\ arg \in {[tool |-> t, file |-> NoCounter.file, pc |-> NoCounter.pc,
                 counter |-> NoCounter.counter, overlap |-> FALSE] : t \in Tools}
    /\ ret = <<>>

\* Calls begun so far: the numbers handed out and the reads not yet written.
Calls == Len(ret) + Cardinality({p \in Procs : arg.pc[p] = "write"})

\* counter = int(DPS_COUNTER_FILE.read_text().strip()), or the first number;
\* numero = config.getint("nfse", "proximo_numero", fallback=1)
ReadCounter(p) ==
    /\ arg.pc[p] = "idle"
    /\ Calls < MaxCalls
    /\ arg' = [arg EXCEPT
                 !.counter[p] = IF arg.file = <<>> THEN FirstNumber(arg.tool)
                                ELSE arg.file[1],
                 !.pc[p] = "write",
                 !.overlap = @ \/ \E q \in Procs \ {p} : arg.pc[q] = "write"]
    /\ UNCHANGED <<world, caches, call, docvars, ret>>

\* DPS_COUNTER_FILE.write_text(str(counter + 1)); return counter
WriteCounter(p) ==
    /\ arg.pc[p] = "write"
    /\ arg' = [arg EXCEPT !.file = <<arg.counter[p] + 1>>, !.pc[p] = "issue"]
    /\ ret' = Append(ret, [proc |-> p, number |-> arg.counter[p],
                           outcome |-> "pending"])
    /\ UNCHANGED <<world, caches, call, docvars>>

\* The last number handed to p.
LastOf(p) ==
    CHOOSE i \in 1 .. Len(ret) :
        ret[i].proc = p /\ \A j \in i + 1 .. Len(ret) : ret[j].proc # p

\* The rest of issue_nfse: a dry run, an issued NFSe or a failed submission.
\* None of them touches the counter.
Issue(p, outcome) ==
    /\ arg.pc[p] = "issue"
    /\ arg' = [arg EXCEPT !.pc[p] = "idle"]
    /\ ret' = [ret EXCEPT ![LastOf(p)].outcome = outcome]
    /\ UNCHANGED <<world, caches, call, docvars>>

CounterNext ==
    \/ \E p \in Procs : ReadCounter(p)
    \/ \E p \in Procs : WriteCounter(p)
    \/ \E p \in Procs, outcome \in {"dry_run", "issued", "failed"} : Issue(p, outcome)

CounterSpec == CounterInit /\ [][CounterNext]_vars

\* C30: no two calls of the sequence source return the same number, whether
\* they follow one another or come from two processes at once; a number
\* handed out is consumed (the file holds a larger one) whatever became of the
\* submission; and calls that did not overlap return consecutive increasing
\* numbers.
C30_UniqueNumbers ==
    /\ \A i, j \in 1 .. Len(ret) : i # j => ret[i].number # ret[j].number
    /\ \A i \in 1 .. Len(ret) : arg.file # <<>> /\ ret[i].number < arg.file[1]
    /\ (~arg.overlap)
          => \A i \in 1 .. Len(ret) - 1 : ret[i + 1].number = ret[i].number + 1

====
